---- MODULE Spec2Model ----
(***************************************************************************)
(* A model of luks2.go: opening a LUKS2 device (luks2OpenDevice),          *)
(* unlocking one keyslot (unlockKeyslot and its helpers) and the           *)
(* priority-ordered search over the keyslots (unlockAnyKeyslot).           *)
(*                                                                         *)
(* Byte strings are abstracted to natural numbers; the cryptographic       *)
(* functions are arithmetic encodings that are injective on the bounded    *)
(* domain, so that two derivations agree exactly when their inputs agree.  *)
(* A buffer is a record [len, val].  An error is a string, "" being nil.   *)
(***************************************************************************)
EXTENDS Integers, Sequences, FiniteSets, TLC

VARIABLES file, pc, dev, passphrase, activeKeyslots, pos, attempts, ret

vars == <<file, pc, dev, passphrase, activeKeyslots, pos, attempts, ret>>

\* The largest number of keyslots of a metadata object with several keyslots.
MaxKeyslots == 3

\* ---------------------------------------------------------------- constants

stripesNum == 4000

storageSectorSize == 512

MinHeaderSize == 16384

MaxHeaderSize == 4194304

ErrPassphraseDoesNotMatch == "ErrPassphraseDoesNotMatch"

\* The magic bytes of a LUKS header, "LUKS" 0xba 0xbe.
LuksMagic == "LUKS.BA.BE"

\* ------------------------------------------------------- encoded JSON values

\* A json.Number: a literal that Int64() parses, or one that it rejects.
Num(n) == [valid |-> TRUE, n |-> n]

BadNum == [valid |-> FALSE, n |-> 0]

\* The zero value of json.Number is the empty string, which Int64() rejects.
ZeroNum == BadNum

\* json.Number.Int64: [err, n].
Int64(x) == IF x.valid THEN [err |-> "", n |-> x.n]
                       ELSE [err |-> "strconv.ParseInt: invalid syntax", n |-> 0]

\* A base64 text: one that decodes to the bytes `val`, or a malformed one.
B64(v) == [valid |-> TRUE, val |-> v]

BadB64 == [valid |-> FALSE, val |-> 0]

\* The empty string decodes to the empty byte string.
EmptyB64 == B64(0)

\* base64.StdEncoding.DecodeString: [err, val].
DecodeString(s) == IF s.valid THEN [err |-> "", val |-> s.val]
                              ELSE [err |-> "illegal base64 data", val |-> 0]

\* A segment size string: "dynamic", a decimal literal, or anything else.
Dynamic == [kind |-> "dynamic", n |-> 0]

Decimal(n) == [kind |-> "decimal", n |-> n]

Garbage == [kind |-> "garbage", n |-> 0]

\* strconv.Atoi of a segment size that is not "dynamic": [err, n].
Atoi(s) == IF s.kind = "decimal" THEN [err |-> "", n |-> s.n]
                                 ELSE [err |-> "strconv.Atoi: invalid syntax", n |-> 0]

\* ------------------------------------------------------------ header reader

isPowerOfTwo(x) == \E e \in 0..30 : x = 2^e

\* The bytes of the header region that the checksum covers, as the sequence of
\* the fields that vary in the model; field 4 is the checksum field.
HeaderBytes(f) ==
  << IF f.magic = LuksMagic THEN 1 ELSE 2,
     f.headerSize \div 512,
     IF f.checksumAlgorithm = "sha256" THEN 1 ELSE 2,
     f.checksum,
     IF f.hasNul THEN 1 ELSE 2,
     IF f.jsonOk THEN 1 ELSE 2 >>

\* Lines 68-71: the 64 bytes of the checksum field are cleared in the copy.
ClearChecksum(data) == [data EXCEPT ![4] = 0]

\* sha256 over the abstract bytes: a positional encoding, never 0.
Sha256(data) ==
  1 + data[1] + 3 * data[3] + 9 * data[5] + 27 * data[6] + 81 * data[4]
    + 1000 * data[2]

\* bytes.IndexByte(jsonData, 0): the index of the first NUL, -1 when none.
IndexByte(f) == IF f.hasNul THEN f.jsonLen ELSE -1

NoDev == [open |-> FALSE, magic |-> "", meta |-> <<>>]

\* The outcome of luks2OpenDevice: kind is "ok", "err" or "panic".
luks2OpenDevice(f) ==
  IF f.length < 512
  THEN [kind |-> "err", err |-> "unexpected EOF", dev |-> NoDev]
  ELSE IF ~isPowerOfTwo(f.headerSize) \/ f.headerSize < MinHeaderSize
            \/ f.headerSize > MaxHeaderSize
  THEN [kind |-> "err", err |-> "Invalid size of LUKS header", dev |-> NoDev]
  ELSE IF f.length < f.headerSize
  THEN [kind |-> "err", err |-> "EOF", dev |-> NoDev]
  ELSE IF f.checksumAlgorithm # "sha256"
  THEN [kind |-> "err", err |-> "Unknown header checksum algorithm", dev |-> NoDev]
  ELSE IF Sha256(ClearChecksum(HeaderBytes(f))) # f.checksum
  THEN [kind |-> "err", err |-> "Invalid header checksum", dev |-> NoDev]
  ELSE IF IndexByte(f) < 0
  THEN [kind |-> "panic", err |-> "slice bounds out of range [:-1]", dev |-> NoDev]
  ELSE IF ~f.jsonOk
  THEN [kind |-> "err", err |-> "json: invalid character", dev |-> NoDev]
  ELSE [kind |-> "ok", err |-> "",
        dev |-> [open |-> TRUE, magic |-> f.magic, meta |-> f.meta]]

\* ------------------------------------------------------------ key derivation

\* The derived bytes of a KDF: `code` names the function (1 pbkdf2, 2 argon2i,
\* 3 argon2id); injective for cost and salt below 8.
KdfVal(code, password, salt, cost) == code + 4 * (cost + 8 * (salt + 8 * password))

Pbkdf2Key(password, salt, iter, keyLen) ==
  [len |-> keyLen, val |-> KdfVal(1, password, salt, iter)]

\* argon2.Key / argon2.IDKey panic when time < 1 or threads < 1.
Argon2Panics(kdf) == kdf.Time < 1 \/ kdf.Cpus < 1

Argon2Key(code, password, salt, kdf, keyLen) ==
  [len |-> keyLen, val |-> KdfVal(code, password, salt, kdf.Time + 2 * kdf.Memory)]

NoBuf == [len |-> 0, val |-> 0]

deriveLuks2AfKey(kdf, keyslotIdx, pass, keyLength) ==
  LET salt == DecodeString(kdf.Salt) IN
  IF salt.err # ""
  THEN [kind |-> "err", err |-> "kdf.salt base64 parsing failed", key |-> NoBuf]
  ELSE IF kdf.Type = "pbkdf2"
  THEN IF kdf.Hash = "sha256"
       THEN [kind |-> "ok", err |-> "",
             key |-> Pbkdf2Key(pass, salt.val, kdf.Iterations, keyLength)]
       ELSE [kind |-> "err", err |-> "Unknown kdf.hash algorithm", key |-> NoBuf]
  ELSE IF kdf.Type \in {"argon2i", "argon2id"}
  THEN IF Argon2Panics(kdf)
       THEN [kind |-> "panic", err |-> "argon2: number of rounds too small",
             key |-> NoBuf]
       ELSE [kind |-> "ok", err |-> "",
             key |-> Argon2Key(IF kdf.Type = "argon2i" THEN 2 ELSE 3, pass,
                               salt.val, kdf, keyLength)]
  ELSE [kind |-> "err", err |-> "Unknown kdf type", key |-> NoBuf]

\* ------------------------------------------------------------- keyslot area

\* The key material a keyslot area holds on disk: the AF-split master key,
\* encrypted under the AF key of the enrolled passphrase.
AfSplit(mk) == mk + 2000

XtsEncrypt(plain, key) == plain + key

XtsDecrypt(ciph, key) == ciph - key

\* f.ReadAt(buf, off) with len(buf) = n: [err, val].  A read that runs past
\* the end of the file fails; a read of another length than the stored
\* key material, or from another place, yields other bytes.
ReadAt(f, n, off) ==
  IF off + n > f.length THEN [err |-> "EOF", val |-> 0]
  ELSE IF off \in DOMAIN f.body
  THEN [err |-> "",
        val |-> IF n = f.body[off].len THEN f.body[off].val
                                       ELSE f.body[off].val + 7]
  ELSE [err |-> "", val |-> 0]

\* strings.Split(encryption, "-") and the two switches of buildLuks2AfCipher,
\* then xts.NewCipher, which needs two AES keys of 16, 24 or 32 bytes.
buildLuks2AfCipher(encryption, afKey) ==
  IF Len(encryption) # 3 THEN "Unexpected encryption format"
  ELSE IF encryption[1] # "aes" THEN "Unknown cipher"
  ELSE IF encryption[2] # "xts" THEN "Unknown encryption mode"
  ELSE IF afKey.len \notin {32, 48, 64} THEN "crypto/aes: invalid key size"
  ELSE ""

\* afMerge(keyData, keyLength, stripes, hash): [err, key].
afMerge(data, keyLength, stripes) ==
  IF data.len # keyLength * stripes
  THEN [err |-> "af merge: unexpected length of the striped data", key |-> NoBuf]
  ELSE [err |-> "", key |-> [len |-> keyLength, val |-> data.val - 2000]]

\* AreaCheck without its second test.
AreaCheckNoAlignment(keyslotSize, areaSize) ==
  IF keyslotSize > areaSize THEN "keyslot area size too small"
  ELSE ""

\* Lines 256-261: the size checks that precede the allocation of keyData.
AreaCheck(keyslotSize, areaSize) ==
  IF keyslotSize > areaSize THEN "keyslot area size too small"
  ELSE IF keyslotSize % storageSectorSize # 0
  THEN "keyslot size is not multiple of the sector size"
  ELSE ""

OffsetCheck(keyslotOffset) ==
  IF keyslotOffset % storageSectorSize # 0
  THEN "keyslot offset is not aligned to sector size"
  ELSE ""

\* The outcome of decryptLuks2VolumeKey.  read: the bytes read from the device;
\* keyData: "none" (never allocated), "cleared" or "live" when it returns;
\* merge: <<length passed, length consumed>> when afMerge was called.
DecryptRet(kind, err, key, read, keyData, merge) ==
  [kind |-> kind, err |-> err, key |-> key, read |-> read,
   keyData |-> keyData, merge |-> merge]

decryptLuks2VolumeKey(f, keyslotIdx, keyslot, afKey) ==
  LET area == keyslot.Area
      keyslotSize == area.KeySize * stripesNum
      areaSize == Int64(area.Size)
      keyslotOffset == Int64(area.Offset)
      rd == ReadAt(f, keyslotSize, keyslotOffset.n)
      ciph == buildLuks2AfCipher(area.Encryption, afKey)
      keyData == [len |-> keyslotSize, val |-> XtsDecrypt(rd.val, afKey.val)]
      af == keyslot.Af
      merged == afMerge(keyData, keyslot.KeySize, af.Stripes)
  IN
  IF areaSize.err # ""
  THEN DecryptRet("err", "Invalid keyslot size value", NoBuf, 0, "none", <<>>)
  ELSE IF AreaCheck(keyslotSize, areaSize.n) # ""
  THEN DecryptRet("err", AreaCheck(keyslotSize, areaSize.n), NoBuf, 0, "none", <<>>)
  \* keyData is allocated here, and cleared by the deferred clearSlice.
  ELSE IF keyslotOffset.err # ""
  THEN DecryptRet("err", "Invalid keyslot offset", NoBuf, 0, "cleared", <<>>)
  ELSE IF OffsetCheck(keyslotOffset.n) # ""
  THEN DecryptRet("err", OffsetCheck(keyslotOffset.n), NoBuf, 0, "cleared", <<>>)
  ELSE IF rd.err # ""
  THEN DecryptRet("err", rd.err, NoBuf, 0, "cleared", <<>>)
  ELSE IF ciph # ""
  THEN DecryptRet("err", ciph, NoBuf, keyslotSize, "cleared", <<>>)
  ELSE IF af.Stripes # stripesNum
  THEN DecryptRet("err", "LUKS currently supports only af with 4000 stripes",
                  NoBuf, keyslotSize, "cleared", <<>>)
  ELSE IF af.Hash # "sha256"
  THEN DecryptRet("err", "Unknown af hash algorithm", NoBuf, keyslotSize,
                  "cleared", <<>>)
  ELSE DecryptRet(IF merged.err = "" THEN "ok" ELSE "err", merged.err,
                  merged.key, keyslotSize, "cleared",
                  <<keyData.len, keyslot.KeySize * af.Stripes>>)

\* ------------------------------------------------------------------ digests

\* The zero values that a lookup of a missing map key yields.
ZeroKdf == [Type |-> "", Hash |-> "", Salt |-> EmptyB64, Iterations |-> 0,
            Time |-> 0, Memory |-> 0, Cpus |-> 0]

ZeroKeyslot ==
  [KeySize |-> 0, Priority |-> "",
   Area |-> [KeySize |-> 0, Offset |-> ZeroNum, Size |-> ZeroNum,
             Encryption |-> <<>>],
   Kdf |-> ZeroKdf,
   Af |-> [Stripes |-> 0, Hash |-> ""]]

ZeroSegment == [Offset |-> ZeroNum, Size |-> Garbage, IvTweak |-> ZeroNum,
                SectorSize |-> 0, Encryption |-> <<>>]

ZeroDigest == [Type |-> "", Hash |-> "", Salt |-> EmptyB64, Iterations |-> 0,
               Digest |-> EmptyB64, Keyslots |-> <<>>, Segments |-> <<>>]

\* m[k] of a Go map: the zero value when k is no key.
MapGet(m, k, zero) == IF k \in DOMAIN m THEN m[k] ELSE zero

\* Whether digest `dig` names keyslot keyslotIdx (lines 357-365): entries that
\* do not parse are skipped.
DigestBinds(dig, keyslotIdx) ==
  \E j \in 1..Len(dig.Keyslots) :
    Int64(dig.Keyslots[j]).err = "" /\ Int64(dig.Keyslots[j]).n = keyslotIdx

\* findDigestForKeyslot, the digests ranged over in the order `order`:
\* [found, idx, dig].
findDigestForKeyslot(d, keyslotIdx, order) ==
  LET hits == {j \in 1..Len(order) : DigestBinds(d.meta.Digests[order[j]], keyslotIdx)}
  IN IF hits = {}
     THEN [found |-> FALSE, idx |-> 0, dig |-> ZeroDigest]
     ELSE LET j == CHOOSE h \in hits : \A g \in hits : h <= g
          IN [found |-> TRUE, idx |-> order[j], dig |-> d.meta.Digests[order[j]]]

\* computeDigestForKey with the bad-salt error replaced by the sentinel.
computeDigestForKeySentinel(dig, keyslotIdx, finalKey) ==
  IF DecodeString(dig.Salt).err # ""
  THEN [err |-> ErrPassphraseDoesNotMatch, digest |-> NoBuf]
  ELSE IF dig.Type # "pbkdf2" THEN [err |-> "Unknown digest kdf type", digest |-> NoBuf]
  ELSE IF dig.Hash # "sha256"
  THEN [err |-> "Unknown digest hash algorithm", digest |-> NoBuf]
  ELSE [err |-> "",
        digest |-> Pbkdf2Key(finalKey.val, DecodeString(dig.Salt).val,
                             dig.Iterations, 32)]

\* computeDigestForKey: [err, digest].
computeDigestForKey(dig, keyslotIdx, finalKey) ==
  IF DecodeString(dig.Salt).err # ""
  THEN [err |-> "digest.salt base64 parsing failed", digest |-> NoBuf]
  ELSE IF dig.Type # "pbkdf2" THEN [err |-> "Unknown digest kdf type", digest |-> NoBuf]
  ELSE IF dig.Hash # "sha256"
  THEN [err |-> "Unknown digest hash algorithm", digest |-> NoBuf]
  ELSE [err |-> "",
        digest |-> Pbkdf2Key(finalKey.val, DecodeString(dig.Salt).val,
                             dig.Iterations, 32)]

\* ------------------------------------------------------------ unlockKeyslot

NoInfo == [key |-> NoBuf, digestId |-> 0, luksType |-> "", storageSize |-> 0,
           storageOffset |-> 0, storageEncryption |-> <<>>,
           storageIvTweak |-> 0, storageSectorSize |-> 0]

\* A byte count left as it is.
SectorsOfBytes(bytes, sectorSize) == bytes

\* Lines 186-187: a byte count in sectors (unsigned integer division).
SectorsOf(bytes, sectorSize) == bytes \div sectorSize

\* The outcome of unlockKeyslot.  alloc: the secret buffers allocated during
\* the call; live: those of them not zeroed when it ends; read and merge as
\* in DecryptRet.
KeyslotRet(kind, err, info, alloc, live, read, merge) ==
  [kind |-> kind, err |-> err, info |-> info, alloc |-> alloc, live |-> live,
   read |-> read, merge |-> merge]

\* Lines 150-192, reached with the digest verified: digInfo is the digest,
\* finalKey the merged key; alloc, live, read and merge are those of the call
\* so far (nothing on this path clears a buffer that is still live).
resolveVolumeInfo(d, digIdx, digInfo, finalKey, alloc, live, read, merge) ==
  LET Fail(e) == KeyslotRet("err", e, NoInfo, alloc, live, read, merge)
      seg == Int64(digInfo.Segments[1])
      storageSegment == MapGet(d.meta.Segments, seg.n, ZeroSegment)
      offset == Int64(storageSegment.Offset)
      size == Atoi(storageSegment.Size)
      storageSize == IF storageSegment.Size = Dynamic THEN 0 ELSE size.n
      ivTweak == Int64(storageSegment.IvTweak)
  IN
  IF Len(digInfo.Segments) # 1
  THEN Fail("LUKS partition expects exactly 1 storage segment")
  ELSE IF seg.err # "" THEN Fail(seg.err)
  ELSE IF offset.err # "" THEN Fail(offset.err)
  ELSE IF storageSegment.Size # Dynamic /\ size.err # "" THEN Fail(size.err)
  ELSE IF storageSegment.Size # Dynamic /\ size.n = 0
  THEN Fail("invalid segment size")
  ELSE IF ivTweak.err # "" THEN Fail(ivTweak.err)
  ELSE IF storageSegment.SectorSize = 0
  THEN KeyslotRet("panic", "integer divide by zero", NoInfo, alloc, live,
                  read, merge)
  ELSE KeyslotRet("ok", "",
         [key |-> finalKey, digestId |-> digIdx, luksType |-> "LUKS2",
          storageSize |-> SectorsOf(storageSize, storageSegment.SectorSize),
          storageOffset |-> SectorsOf(offset.n, storageSegment.SectorSize),
          storageEncryption |-> storageSegment.Encryption,
          storageIvTweak |-> ivTweak.n,
          storageSectorSize |-> storageSegment.SectorSize],
         alloc, live, read, merge)

\* unlockKeyslot; `order` is the order in which the range over the digests
\* map yields its keys.
unlockKeyslot(d, f, keyslotIdx, pass, order) ==
  LET keyslots == d.meta.Keyslots
      keyslot == MapGet(keyslots, keyslotIdx, ZeroKeyslot)
      dk == deriveLuks2AfKey(keyslot.Kdf, keyslotIdx, pass, keyslot.KeySize)
      dec == decryptLuks2VolumeKey(f, keyslotIdx, keyslot, dk.key)
      \* afKey and keyData are cleared by deferred calls on every return.
      allocDec == {"afKey"} \cup (IF dec.keyData = "none" THEN {} ELSE {"keyData"})
      liveDec == IF dec.keyData = "live" THEN {"keyData"} ELSE {}
      liveKey == liveDec \cup {"finalKey"}
      found == findDigestForKeyslot(d, keyslotIdx, order)
      gen == computeDigestForKey(found.dig, keyslotIdx, dec.key)
      expectedDigest == DecodeString(found.dig.Digest)
      allocKey == allocDec \cup {"finalKey"}
      allocAll == allocKey \cup {"generatedDigest"}
      Fail(e, alloc, live) == KeyslotRet("err", e, NoInfo, alloc, live, dec.read, dec.merge)
  IN
  IF keyslotIdx < 0 \/ keyslotIdx >= Cardinality(DOMAIN keyslots)
  THEN KeyslotRet("err", "keyslot is out of range of available slots", NoInfo,
                  {}, {}, 0, <<>>)
  ELSE IF dk.kind # "ok"
  THEN KeyslotRet(dk.kind, dk.err, NoInfo, {}, {}, 0, <<>>)
  ELSE IF dec.kind # "ok"
  THEN KeyslotRet(dec.kind, dec.err, NoInfo, allocDec, liveDec, dec.read, dec.merge)
  \* finalKey is allocated from here on and no return below clears it.
  ELSE IF ~found.found
  THEN Fail("No digest is found for keyslot", allocKey, liveKey)
  ELSE IF gen.err # ""
  THEN Fail(gen.err, allocKey, liveKey)
  \* generatedDigest is cleared by a deferred call on every return below.
  ELSE IF expectedDigest.err # ""
  THEN Fail("digest.Digest base64 parsing failed", allocAll, liveKey)
  ELSE IF gen.digest.val # expectedDigest.val
  THEN Fail(ErrPassphraseDoesNotMatch, allocAll, liveKey)
  ELSE resolveVolumeInfo(d, found.idx, found.dig, dec.key, allocAll, liveKey,
                         dec.read, dec.merge)

\* --------------------------------------------------------- unlockAnyKeyslot

\* The orders in which a range over a map with the key set S yields its keys.
RangeOrders(S) ==
  {p \in [1..Cardinality(S) -> S] : \A i, j \in 1..Cardinality(S) : p[i] = p[j] => i = j}

\* A slice left in the order of its appends.
Unsorted(s) == s

\* sort.Ints of a slice of distinct integers.
SortInts(s) ==
  LET S == {s[i] : i \in 1..Len(s)}
  IN [i \in 1..Cardinality(S) |->
        CHOOSE x \in S : Cardinality({y \in S : y < x}) = i - 1]

\* Lines 197-207: the keyslots to attempt, `order` being the order of the
\* range over the keyslots map.
ActiveKeyslots(d, order) ==
  LET prio(k) == d.meta.Keyslots[k].Priority
      highPrio == SelectSeq(order, LAMBDA k : prio(k) = "2")
      normPrio == SelectSeq(order, LAMBDA k : prio(k) = "" \/ prio(k) = "1")
  IN SortInts(highPrio) \o SortInts(normPrio)

\* A loop that goes on after every error.
LoopDecisionLenient(err) == IF err = "" THEN "return" ELSE "continue"

\* Lines 211-217: what the loop does with the error of one attempt.
LoopDecision(err) ==
  IF err = "" THEN "return"
  ELSE IF err = ErrPassphraseDoesNotMatch THEN "continue"
  ELSE "abort"

\* A loop that stays on the keyslot it tried.
SamePos(i) == i

\* Line 209: the range moves to the next element.
NextPos(i) == i + 1

\* ------------------------------------------------------------------- inputs

Passphrases == {1, 2}

\* Where the key material of keyslot j lies on the device.
AreaOffset(j) == 32768 + j * 262144

BaseKdf == [Type |-> "pbkdf2", Hash |-> "sha256", Salt |-> B64(1), Iterations |-> 4,
            Time |-> 0, Memory |-> 0, Cpus |-> 0]

BaseKeyslot(j, prio) ==
  [KeySize |-> 64, Priority |-> prio,
   Area |-> [KeySize |-> 64, Offset |-> Num(AreaOffset(j)), Size |-> Num(256000),
             Encryption |-> <<"aes", "xts", "plain64">>],
   Kdf |-> BaseKdf,
   Af |-> [Stripes |-> stripesNum, Hash |-> "sha256"]]

\* One field of a keyslot changed.
VaryKeyslot(K) ==
  {[k EXCEPT !.Kdf.Type = t] : k \in K, t \in {"argon2i", "argon2id", "scrypt"}}
  \cup {[k EXCEPT !.Kdf.Time = 1, !.Kdf.Cpus = 1] : k \in K}
  \cup {[k EXCEPT !.Kdf.Hash = "sha1"] : k \in K}
  \cup {[k EXCEPT !.Kdf.Salt = BadB64] : k \in K}
  \cup {[k EXCEPT !.KeySize = n] : k \in K, n \in {32, 40}}
  \cup {[k EXCEPT !.Area.KeySize = n] : k \in K, n \in {32, 40, 72}}
  \cup {[k EXCEPT !.Area.Size = n] : k \in K,
            n \in {BadNum, Num(127999), Num(255999), Num(256001), Num(320000)}}
  \cup {[k EXCEPT !.Area.Offset = n] : k \in K,
            n \in {BadNum, Num(32769), Num(8388608)}}
  \cup {[k EXCEPT !.Area.Encryption = e] : k \in K,
            e \in {<<"aes", "xts">>, <<"des", "xts", "plain64">>,
                   <<"aes", "cbc", "essiv:sha256">>}}
  \cup {[k EXCEPT !.Af.Stripes = 2000] : k \in K}
  \cup {[k EXCEPT !.Af.Hash = "sha1"] : k \in K}
  \cup {[k EXCEPT !.Priority = p] : k \in K, p \in {"0", "1", "2", "3"}}

KeyslotSpace ==
  LET one == VaryKeyslot({BaseKeyslot(0, "")})
  IN {BaseKeyslot(0, "")} \cup one \cup VaryKeyslot(one)

BaseSegment == [Offset |-> Num(16384), Size |-> Decimal(131072), IvTweak |-> Num(0),
                SectorSize |-> 512, Encryption |-> <<"aes", "xts", "plain64">>]

VarySegment(S) ==
  {[s EXCEPT !.Offset = n] : s \in S, n \in {BadNum, Num(0), Num(1048576), Num(16385)}}
  \cup {[s EXCEPT !.Size = z] : s \in S,
            z \in {Dynamic, Garbage, Decimal(0), Decimal(1000), Decimal(4096)}}
  \cup {[s EXCEPT !.IvTweak = n] : s \in S, n \in {BadNum, Num(3)}}
  \cup {[s EXCEPT !.SectorSize = n] : s \in S, n \in {0, 4096}}

SegmentSpace ==
  LET one == VarySegment({BaseSegment})
  IN {BaseSegment} \cup one \cup VarySegment(one)

\* The digest of master key mk, bound to the keyslots ks and to segment 0.
BaseDigest(mk, ks) ==
  [Type |-> "pbkdf2", Hash |-> "sha256", Salt |-> B64(2), Iterations |-> 1,
   Digest |-> B64(Pbkdf2Key(mk, 2, 1, 32).val),
   Keyslots |-> ks, Segments |-> <<Num(0)>>]

VaryDigest(D) ==
  {[g EXCEPT !.Type = "argon2i"] : g \in D}
  \cup {[g EXCEPT !.Hash = "sha1"] : g \in D}
  \cup {[g EXCEPT !.Salt = s] : g \in D, s \in {BadB64, B64(3)}}
  \cup {[g EXCEPT !.Iterations = 2] : g \in D}
  \cup {[g EXCEPT !.Digest = x] : g \in D, x \in {BadB64, B64(5)}}
  \cup {[g EXCEPT !.Keyslots = ks] : g \in D,
            ks \in {<<>>, <<Num(1)>>, <<BadNum, Num(0)>>, <<Num(1), Num(0)>>}}
  \cup {[g EXCEPT !.Segments = ss] : g \in D,
            ss \in {<<>>, <<Num(0), Num(1)>>, <<Num(1)>>, <<Num(5)>>, <<BadNum>>}}

\* What a formatter writes into the area of a keyslot enrolled with `pass`.
Enrolled(keyslot, pass, mk) ==
  [len |-> keyslot.KeySize * stripesNum,
   val |-> XtsEncrypt(AfSplit(mk),
             deriveLuks2AfKey(keyslot.Kdf, 0, pass, keyslot.KeySize).key.val)]

\* The header checksum a formatter stores for the header of f.
GoodChecksum(f) == Sha256(ClearChecksum(HeaderBytes(f)))

\* A well-formed device with master key 1500 that holds metadata `meta`, the
\* area of keyslot j enrolled with passphrase enrol[j].
Device(meta, enrol) ==
  LET f == [magic |-> LuksMagic, headerSize |-> MinHeaderSize,
            checksumAlgorithm |-> "sha256", checksum |-> 0, hasNul |-> TRUE,
            jsonOk |-> TRUE, jsonLen |-> 2048, length |-> 4194304,
            body |-> [o \in {AreaOffset(j) : j \in DOMAIN meta.Keyslots} |->
                        LET j == CHOOSE i \in DOMAIN meta.Keyslots : AreaOffset(i) = o
                        IN Enrolled(meta.Keyslots[j], enrol[j], 1500)],
            meta |-> meta]
  IN [f EXCEPT !.checksum = GoodChecksum(f)]

OneKeyslotMeta(keyslot, digests, segment) ==
  [Keyslots |-> [j \in {0} |-> keyslot], Digests |-> digests,
   Segments |-> [j \in {0} |-> segment]]

\* Headers: every field the header reader looks at varies.
HeaderFiles ==
  LET base == Device(OneKeyslotMeta(BaseKeyslot(0, ""),
                       [j \in {0} |-> BaseDigest(1500, <<Num(0)>>)], BaseSegment),
                     [j \in {0} |-> 1])
  IN {LET f == [base EXCEPT !.magic = m, !.headerSize = h,
                            !.checksumAlgorithm = a, !.hasNul = z, !.jsonOk = j,
                            !.length = n]
      IN [f EXCEPT !.checksum = IF c THEN GoodChecksum(f) ELSE GoodChecksum(f) + 1]
      : m \in {LuksMagic, "SKUL.BA.BE"},
        h \in {8192, 16384, 24576, 32768, 4194304, 8388608},
        a \in {"sha256", "sha512"}, c \in BOOLEAN, z \in BOOLEAN, j \in BOOLEAN,
        n \in {256, 16384, 8388608}}

\* One keyslot, any of its fields off.
KeyslotFiles ==
  {Device(OneKeyslotMeta(k, [j \in {0} |-> BaseDigest(1500, <<Num(0)>>)], BaseSegment),
          [j \in {0} |-> 1]) : k \in KeyslotSpace}

\* One good keyslot; the digest and the segment vary.
DigestFiles ==
  LET base == BaseDigest(1500, <<Num(0)>>)
      one == VaryDigest({base})
  IN {Device(OneKeyslotMeta(BaseKeyslot(0, ""), [j \in {0} |-> g], s),
             [j \in {0} |-> 1])
      : g \in {base} \cup one, s \in SegmentSpace}
     \cup
     {Device(OneKeyslotMeta(BaseKeyslot(0, ""), [j \in {0} |-> g], BaseSegment),
             [j \in {0} |-> 1])
      : g \in VaryDigest(one)}
     \cup
     {Device(OneKeyslotMeta(BaseKeyslot(0, ""), [j \in {0, 1} |-> IF j = 0 THEN g ELSE h],
                            BaseSegment),
             [j \in {0} |-> 1])
      : g \in {base} \cup one, h \in {base} \cup one}

\* Several keyslots: each is enrolled with one of the passphrases or has an
\* unsupported stripe count, and has one of the priorities.  Either every
\* priority occurs and every keyslot is enrolled, or every kind occurs and the
\* priorities are the normal and the high one.
SlotKinds == {"enrolled1", "enrolled2", "broken"}

Priorities == {"", "0", "1", "2"}

SlotChoices ==
  {[kinds |-> {"enrolled1", "enrolled2"}, prios |-> Priorities],
   [kinds |-> SlotKinds, prios |-> {"", "2"}]}

\* The device with the keyslots S, of the kinds `kind` and priorities `prio`,
\* all bound to one digest.
ManyKeyslotFile(S, kind, prio) ==
  LET ks == [j \in S |->
               IF kind[j] = "broken"
               THEN [BaseKeyslot(j, prio[j]) EXCEPT !.Af.Stripes = 2000]
               ELSE BaseKeyslot(j, prio[j])]
      bound == [i \in 1..MaxKeyslots |-> Num(i - 1)]
  IN Device([Keyslots |-> ks,
             Digests |-> [j \in {0} |-> BaseDigest(1500, bound)],
             Segments |-> [j \in {0} |-> BaseSegment]],
            [j \in S |-> IF kind[j] = "enrolled2" THEN 2 ELSE 1])

\* ------------------------------------------------------------ state machine

\* ret: the last call that ended, with the keyslot index it was about, the
\* order in which its range over the digests ran, and its outcome.
NoRet == [op |-> "none", idx |-> 0, order |-> <<>>,
          res |-> KeyslotRet("", "", NoInfo, {}, {}, 0, <<>>)]

Init ==
  /\ \/ file \in HeaderFiles
     \/ file \in KeyslotFiles
     \/ file \in DigestFiles
     \/ \E S \in SUBSET (0..(MaxKeyslots - 1)) :
          \E c \in SlotChoices :
            \E kind \in [S -> c.kinds], prio \in [S -> c.prios] :
              file = ManyKeyslotFile(S, kind, prio)
  /\ pc = "start"
  /\ dev = NoDev
  /\ passphrase = 0
  /\ activeKeyslots = <<>>
  /\ pos = 0
  /\ attempts = <<>>
  /\ ret = NoRet

\* luks2OpenDevice(f).
OpenDevice ==
  /\ pc = "start"
  /\ LET r == luks2OpenDevice(file)
     IN /\ dev' = r.dev
        /\ pc' = IF r.kind = "ok" THEN "opened"
                 ELSE IF r.kind = "panic" THEN "crashed" ELSE "openFailed"
        /\ ret' = [op |-> "luks2OpenDevice", idx |-> 0, order |-> <<>>,
                   res |-> KeyslotRet(r.kind, r.err, NoInfo, {}, {}, 0, <<>>)]
  /\ UNCHANGED <<file, passphrase, activeKeyslots, pos, attempts>>

\* d.unlockKeyslot(f, keyslotIdx, pass), called by the user of the package.
CallUnlockKeyslot ==
  /\ pc = "opened"
  /\ \E keyslotIdx \in (-1)..Cardinality(DOMAIN dev.meta.Keyslots),
        pass \in Passphrases,
        order \in RangeOrders(DOMAIN dev.meta.Digests) :
       LET r == unlockKeyslot(dev, file, keyslotIdx, pass, order)
       IN /\ ret' = [op |-> "unlockKeyslot", idx |-> keyslotIdx, order |-> order,
                     res |-> r]
          /\ passphrase' = pass
          /\ pc' = IF r.kind = "panic" THEN "crashed" ELSE "returned"
  /\ UNCHANGED <<file, dev, activeKeyslots, pos, attempts>>

\* d.unlockAnyKeyslot(f, pass) up to its loop (lines 196-207).
UnlockAnyBegin ==
  /\ pc = "opened"
  /\ passphrase' \in Passphrases
  /\ activeKeyslots' \in {ActiveKeyslots(dev, order) :
                            order \in RangeOrders(DOMAIN dev.meta.Keyslots)}
  /\ pos' = 1
  /\ attempts' = <<>>
  /\ pc' = "any"
  /\ UNCHANGED <<file, dev, ret>>

\* One turn of the loop of unlockAnyKeyslot (lines 209-218).
UnlockAnyAttempt ==
  /\ pc = "any"
  /\ pos <= Len(activeKeyslots)
  /\ \E order \in RangeOrders(DOMAIN dev.meta.Digests) :
       LET k == activeKeyslots[pos]
           r == unlockKeyslot(dev, file, k, passphrase, order)
           todo == LoopDecision(r.err)
           done == [op |-> "unlockAnyKeyslot", idx |-> k, order |-> order, res |-> r]
       IN /\ attempts' = Append(attempts, [k |-> k, order |-> order, res |-> r])
          /\ IF r.kind = "panic"
             THEN /\ pc' = "crashed"
                  /\ ret' = done
                  /\ pos' = pos
             ELSE IF todo = "continue"
             THEN /\ pc' = "any"
                  /\ ret' = ret
                  /\ pos' = NextPos(pos)
             ELSE /\ pc' = "returned"
                  /\ ret' = done
                  /\ pos' = pos
  /\ UNCHANGED <<file, dev, passphrase, activeKeyslots>>

\* The loop of unlockAnyKeyslot is over (line 219).
UnlockAnyExhausted ==
  /\ pc = "any"
  /\ pos > Len(activeKeyslots)
  /\ pc' = "returned"
  /\ ret' = [op |-> "unlockAnyKeyslot", idx |-> -1, order |-> <<>>,
             res |-> KeyslotRet("err", ErrPassphraseDoesNotMatch, NoInfo, {}, {},
                                0, <<>>)]
  /\ UNCHANGED <<file, dev, passphrase, activeKeyslots, pos, attempts>>

Next ==
  \/ OpenDevice
  \/ CallUnlockKeyslot
  \/ UnlockAnyBegin
  \/ UnlockAnyAttempt
  \/ UnlockAnyExhausted

Spec == Init /\ [][Next]_vars

\* --------------------------------------------------------------- properties

\* The calls of unlockKeyslot that have ended: the one made directly and those
\* made by the loop of unlockAnyKeyslot.
Calls ==
  (IF ret.op = "unlockKeyslot"
   THEN {[idx |-> ret.idx, order |-> ret.order, res |-> ret.res]} ELSE {})
  \cup {[idx |-> attempts[i].k, order |-> attempts[i].order, res |-> attempts[i].res]
        : i \in 1..Len(attempts)}

Priority(k) == dev.meta.Keyslots[k].Priority

IsHigh(k) == Priority(k) = "2"

IsNormal(k) == Priority(k) \in {"", "1"}

\* C1: unlockAnyKeyslot attempts the keyslots of priority "2" in ascending
\* index order, then those of priority "" or "1" in ascending index order: every
\* attempted keyslot has one of these priorities, and when a keyslot is
\* attempted, every high-priority keyslot of a smaller index, and for a
\* normal-priority keyslot every high-priority keyslot and every
\* normal-priority keyslot of a smaller index, has been attempted before it.
C1_AttemptOrder ==
  \A i \in 1..Len(attempts) :
    LET k == attempts[i].k
        before == {attempts[j].k : j \in 1..(i - 1)}
    IN /\ k \in DOMAIN dev.meta.Keyslots
       /\ IsHigh(k) \/ IsNormal(k)
       /\ \A h \in DOMAIN dev.meta.Keyslots :
            /\ (IsHigh(h) /\ IsHigh(k) /\ h < k) => h \in before
            /\ (IsHigh(h) /\ IsNormal(k)) => h \in before
            /\ (IsNormal(h) /\ IsNormal(k) /\ h < k) => h \in before
            /\ (IsHigh(k) /\ IsNormal(h)) => h \notin before
            /\ (h > k /\ (IsHigh(h) <=> IsHigh(k))) => h \notin before

\* C1 witness: a high-priority keyslot was attempted before a normal-priority
\* keyslot of a smaller index, and a keyslot of priority "0" was left out.
C1_Witness ==
  /\ pc = "returned"
  /\ ret.op = "unlockAnyKeyslot"
  /\ Len(attempts) = 2
  /\ attempts[1].k > attempts[2].k
  /\ \E k \in DOMAIN dev.meta.Keyslots : Priority(k) = "0"

AllWrongPassphrase(n) ==
  \A i \in 1..n : attempts[i].res.err = ErrPassphraseDoesNotMatch

\* C2: the result of unlockAnyKeyslot is the VolumeInfo of the first keyslot
\* that unlocks, or the first error other than WrongPassphrase, every earlier
\* attempt having ended in WrongPassphrase; and it is WrongPassphrase exactly
\* when every attempted keyslot ended in WrongPassphrase (or none was
\* attempted, there being no candidate).
C2_ResultOfAttempts ==
  (pc = "returned" /\ ret.op = "unlockAnyKeyslot") =>
    LET n == Len(attempts) IN
    /\ ret.res.kind \in {"ok", "err"}
    /\ ret.res.kind = "ok" =>
         /\ n >= 1
         /\ attempts[n].res.kind = "ok"
         /\ ret.res.info = attempts[n].res.info
         /\ AllWrongPassphrase(n - 1)
    /\ (ret.res.kind = "err" /\ ret.res.err # ErrPassphraseDoesNotMatch) =>
         /\ n >= 1
         /\ attempts[n].res.err = ret.res.err
         /\ AllWrongPassphrase(n - 1)
    /\ (ret.res.kind = "err" /\ ret.res.err = ErrPassphraseDoesNotMatch) <=>
         AllWrongPassphrase(n)
    /\ AllWrongPassphrase(n) => n = Len(activeKeyslots)

\* C2 witness: a keyslot unlocked after another one ended in WrongPassphrase.
C2_Witness ==
  /\ pc = "returned"
  /\ ret.op = "unlockAnyKeyslot"
  /\ ret.res.kind = "ok"
  /\ Len(attempts) >= 2

\* C3: within one call of unlockAnyKeyslot no keyslot is attempted twice, and
\* no attempt follows one that succeeded or failed with an error other than
\* WrongPassphrase.
C3_NoRetryNoContinue ==
  /\ \A i, j \in 1..Len(attempts) : attempts[i].k = attempts[j].k => i = j
  /\ \A i \in 1..(Len(attempts) - 1) :
       /\ attempts[i].res.kind = "err"
       /\ attempts[i].res.err = ErrPassphraseDoesNotMatch

\* C3 witness: the loop went past a WrongPassphrase and stopped at a
\* structural error with a candidate left untried.
C3_Witness ==
  /\ pc = "returned"
  /\ ret.op = "unlockAnyKeyslot"
  /\ Len(attempts) = 2
  /\ Len(activeKeyslots) = 3
  /\ attempts[1].res.err = ErrPassphraseDoesNotMatch
  /\ attempts[2].res.err = "LUKS currently supports only af with 4000 stripes"

\* C4: when unlockKeyslot returns, every secret buffer allocated during the
\* attempt has been zeroed, but for the merged key on the success path.
C4_SecretsZeroed ==
  \A c \in Calls :
    c.res.kind \in {"ok", "err"} =>
      c.res.live \subseteq (IF c.res.kind = "ok" THEN {"finalKey"} ELSE {})

\* All the steps before the digest comparison succeed for call c, and the
\* computed digest differs from the stored one.
DigestMismatch(c) ==
  LET keyslots == dev.meta.Keyslots
      keyslot == MapGet(keyslots, c.idx, ZeroKeyslot)
      dk == deriveLuks2AfKey(keyslot.Kdf, c.idx, passphrase, keyslot.KeySize)
      dec == decryptLuks2VolumeKey(file, c.idx, keyslot, dk.key)
      found == findDigestForKeyslot(dev, c.idx, c.order)
      gen == computeDigestForKey(found.dig, c.idx, dec.key)
      stored == DecodeString(found.dig.Digest)
  IN /\ c.idx >= 0 /\ c.idx < Cardinality(DOMAIN keyslots)
     /\ dk.kind = "ok"
     /\ dec.kind = "ok"
     /\ found.found
     /\ gen.err = ""
     /\ stored.err = ""
     /\ gen.digest.val # stored.val

\* C5: unlockKeyslot returns the WrongPassphrase sentinel exactly when key
\* derivation, area decryption, AF merge, digest lookup, digest computation
\* and the decoding of the stored digest succeeded and the two digests differ;
\* so unlockAnyKeyslot goes on to another keyslot only after such a mismatch.
C5_SentinelOnlyOnMismatch ==
  /\ \A c \in Calls :
       (c.res.err = ErrPassphraseDoesNotMatch) <=> DigestMismatch(c)
  /\ \A i \in 1..(Len(attempts) - 1) :
       DigestMismatch([idx |-> attempts[i].k, order |-> attempts[i].order,
                       res |-> attempts[i].res])

\* C5 witness: a direct call ended in the sentinel.
C5_Witness ==
  /\ ret.op = "unlockKeyslot"
  /\ ret.res.err = ErrPassphraseDoesNotMatch

\* C6: luks2OpenDevice and unlockKeyslot end by returning a result or an
\* error, never by a runtime crash.
C6_NoCrash == pc # "crashed"

\* Call c reached the keyslot-area step with an integer area.size.
AreaStepReached(c) ==
  LET keyslots == dev.meta.Keyslots
      keyslot == MapGet(keyslots, c.idx, ZeroKeyslot)
  IN /\ c.idx >= 0 /\ c.idx < Cardinality(DOMAIN keyslots)
     /\ deriveLuks2AfKey(keyslot.Kdf, c.idx, passphrase, keyslot.KeySize).kind = "ok"
     /\ keyslot.Area.Size.valid

AlignmentErrors ==
  {"keyslot size is not multiple of the sector size",
   "keyslot offset is not aligned to sector size"}

\* The area of call c with `required` bytes needed and `aligned` telling
\* whether its size passes the alignment test: too small an area, and a
\* misaligned size or offset, end the call with the matching error before
\* anything is read.
AreaErrors(c, required, aligned) ==
  LET area == MapGet(dev.meta.Keyslots, c.idx, ZeroKeyslot).Area
  IN /\ area.Size.n < required =>
          (c.res.err = "keyslot area size too small" /\ c.res.read = 0)
     /\ (/\ area.Size.n >= required
         /\ ~aligned \/ (area.Offset.valid /\ area.Offset.n % 512 # 0)) =>
          (c.res.err \in AlignmentErrors /\ c.res.read = 0)

\* C7 as claimed: at the keyslot-area step unlockKeyslot fails with the
\* area-too-small error if area.size < keySize x 4000, and otherwise with an
\* alignment error whenever area.size or area.offset is not a multiple of 512,
\* in each case without reading the keyslot area.  Stated for the keyslots
\* whose two key-size fields agree, where keySize has one reading only, and
\* whose area.offset is an integer.
C7_AreaSizeChecked ==
  \A c \in Calls :
    LET keyslot == MapGet(dev.meta.Keyslots, c.idx, ZeroKeyslot)
    IN (/\ AreaStepReached(c)
        /\ keyslot.Area.KeySize = keyslot.KeySize
        /\ keyslot.Area.Offset.valid) =>
         AreaErrors(c, keyslot.KeySize * 4000, keyslot.Area.Size.n % 512 = 0)

\* C7 amended: at the keyslot-area step unlockKeyslot fails with the
\* area-too-small error if area.size < area.keySize x 4000, and otherwise with
\* an alignment error whenever area.keySize x 4000 or area.offset is not a
\* multiple of 512, in each case without reading the keyslot area.
C7_KeyslotSizeChecked ==
  \A c \in Calls :
    AreaStepReached(c) =>
      LET keyslot == MapGet(dev.meta.Keyslots, c.idx, ZeroKeyslot)
      IN AreaErrors(c, keyslot.Area.KeySize * 4000,
                    (keyslot.Area.KeySize * 4000) % 512 = 0)

\* C7 witness: an area large enough whose area.keySize x 4000 is no multiple
\* of 512 stopped a call with the alignment error, nothing read.
C7_Witness ==
  /\ ret.op = "unlockKeyslot"
  /\ ret.res.err = "keyslot size is not multiple of the sector size"
  /\ ret.res.read = 0
  /\ LET area == dev.meta.Keyslots[ret.idx].Area
     IN area.Size.n >= area.KeySize * 4000 /\ (area.KeySize * 4000) % 512 # 0

\* C8: luks2OpenDevice returns a Device only if the magic matches, headerSize
\* is a power of two in [16384, 4194304], the checksum algorithm is "sha256",
\* the checksum matches and the JSON up to the first NUL parses.
C8_DeviceOnlyIfValid ==
  dev.open =>
    /\ file.magic = LuksMagic
    /\ file.headerSize \in {2^e : e \in 14..22}
    /\ file.checksumAlgorithm = "sha256"
    /\ file.checksum = GoodChecksum(file)
    /\ file.hasNul
    /\ file.jsonOk

\* The segment that the digest of a successful call names.
SegmentOf(c) ==
  LET dig == dev.meta.Digests[c.res.info.digestId]
  IN MapGet(dev.meta.Segments, Int64(dig.Segments[1]).n, ZeroSegment)

C10_MergeLength ==
  \A c \in Calls :
    c.res.merge # <<>> =>
      /\ c.res.merge[1] = c.res.merge[2]
      /\ c.res.merge[1] =
           MapGet(dev.meta.Keyslots, c.idx, ZeroKeyslot).KeySize * stripesNum

====
